---- MODULE Spec2Model ----
(***************************************************************************)
(* A model of the lyric conversion engine of src/api/lyric-api.go.         *)
(*                                                                         *)
(* Go strings are modelled as sequences of one-character strings, so that  *)
(* the regular expressions, strings.Split, strings.TrimSpace and the       *)
(* fmt.Sprintf number formatting are modelled by what they do to the       *)
(* characters.  "" is the empty sequence << >>.                            *)
(*                                                                         *)
(* The conversion functions are pure; the specification calls each of them *)
(* on inputs drawn from bounded sets (one Call action per function) and    *)
(* records the arguments and the result.  buildResponse is modelled        *)
(* statement by statement.  SpecPool is the specification of the           *)
(* goroutines that run convertYrcToTtml on builders of stringBuilderPool.  *)
(***************************************************************************)
EXTENDS Integers, Sequences, FiniteSets, TLC

VARIABLES
    op,     \* the function that was called, "idle" between calls
    args,   \* its arguments (a record)
    ret,    \* its results, a record (for buildResponse: resp as built so far)
    pc,     \* the statement buildResponse is at, "none" outside it
    err,    \* buildResponse's local err: "nil" or the error
    stringBuilderPool,  \* the builders that are in the sync.Pool
    builders,           \* the strings.Builder objects New has made
    heap,               \* the byte arrays the builders have allocated
    conv,               \* each goroutine's invocation of convertYrcToTtml
    results,            \* what the finished invocations returned
    invocations         \* how many invocations have started

callVars == <<op, args, ret, pc, err>>
poolVars == <<stringBuilderPool, builders, heap, conv, results, invocations>>
vars == <<op, args, ret, pc, err, stringBuilderPool, builders, heap, conv, results,
          invocations>>

(***************************************************************************)
(* Bounds of the model.                                                    *)
(***************************************************************************)
MaxMetaLines == 3      \* longest []MetaLine handed to findClosestLine
MaxRomaLines == 3      \* longest []*LineInfo handed to matchRomajiLine
MaxGroupLines == 4     \* longest []*LineInfo handed to groupLinesIntoDivs
MaxYrcPieces == 2      \* most pieces of markup in a line handed to parseYrcLine
MaxYrcLines == 2       \* most lines in a text handed to parseYrcToLines
MaxLrcLines == 2       \* most lines in an original LRC text
MaxTransLines == 2     \* most lines in a translation text

(***************************************************************************)
(* Generic helpers.                                                        *)
(***************************************************************************)
\* all sequences over S of length 0..n
SeqsUpTo(S, n) == UNION {[1..k -> S] : k \in 0..n}

RECURSIVE Concat(_)
Concat(ss) == IF ss = << >> THEN << >> ELSE Head(ss) \o Concat(Tail(ss))

(***************************************************************************)
(* The Go library functions the code calls, on sequences of characters.    *)
(***************************************************************************)
\* regexp \d: an ASCII digit
IsDigit(c) == c \in {"0", "1", "2", "3", "4", "5", "6", "7", "8", "9"}

DigitVal(c) ==
    CASE c = "0" -> 0 [] c = "1" -> 1 [] c = "2" -> 2 [] c = "3" -> 3
      [] c = "4" -> 4 [] c = "5" -> 5 [] c = "6" -> 6 [] c = "7" -> 7
      [] c = "8" -> 8 [] c = "9" -> 9

\* strconv.Atoi on a string the regular expression matched with \d+ or
\* \d{n}: its decimal value.  The digit runs of the model are short, so the
\* value is in range and the error the code ignores is always nil.
RECURSIVE Atoi(_)
Atoi(s) ==
    IF s = << >> THEN 0
    ELSE 10 * Atoi(SubSeq(s, 1, Len(s) - 1)) + DigitVal(s[Len(s)])

\* unicode.IsSpace, on the white space characters of the model's alphabet
IsSpace(c) == c \in {" ", "\t", "\n", "\r", "\f"}

\* strings.TrimSpace
RECURSIVE TrimLeft(_)
TrimLeft(s) ==
    IF s # << >> /\ IsSpace(Head(s)) THEN TrimLeft(Tail(s)) ELSE s

RECURSIVE TrimRight(_)
TrimRight(s) ==
    IF s # << >> /\ IsSpace(s[Len(s)])
    THEN TrimRight(SubSeq(s, 1, Len(s) - 1))
    ELSE s

TrimSpace(s) == TrimRight(TrimLeft(s))

\* strings.HasPrefix
HasPrefix(s, prefix) ==
    Len(s) >= Len(prefix) /\ SubSeq(s, 1, Len(prefix)) = prefix

\* strings.Contains
Contains(s, substr) ==
    \E i \in 1..(Len(s) - Len(substr) + 1) :
        SubSeq(s, i, i + Len(substr) - 1) = substr

\* strings.Split(s, "\n"): the pieces between the line feeds, one more
\* than there are line feeds (so one empty piece for the empty string)
RECURSIVE SplitLines(_)
SplitLines(s) ==
    IF \E i \in DOMAIN s : s[i] = "\n"
    THEN LET i == CHOOSE k \in DOMAIN s :
                      s[k] = "\n" /\ \A j \in 1..(k - 1) : s[j] # "\n"
         IN  <<SubSeq(s, 1, i - 1)>> \o SplitLines(SubSeq(s, i + 1, Len(s)))
    ELSE <<s>>

\* whether character c stands at position i of s
CharAt(s, i, c) == i >= 1 /\ i <= Len(s) /\ s[i] = c

\* the position after the longest run of digits that starts at position i
RECURSIVE DigitRunEnd(_, _)
DigitRunEnd(s, i) ==
    IF i <= Len(s) /\ IsDigit(s[i]) THEN DigitRunEnd(s, i + 1) ELSE i

(***************************************************************************)
(* abs, lyric-api.go:624                                                   *)
(***************************************************************************)
abs(x) == IF x < 0 THEN -x ELSE x

(***************************************************************************)
(* findClosestLine, lyric-api.go:575.  bestIndex is 0-based in the code    *)
(* with -1 for "none"; here it is 1-based with 0 for "none".               *)
(***************************************************************************)
maxTimeDiffTrans == 500

RECURSIVE FindClosestLoop(_, _, _, _, _)
FindClosestLoop(time, lines, i, minDiff, bestIndex) ==
    IF i > Len(lines) THEN bestIndex
    ELSE LET timeDiff == abs(lines[i].Time - time)
         IN  IF timeDiff < minDiff
             THEN FindClosestLoop(time, lines, i + 1, timeDiff, i)
             ELSE FindClosestLoop(time, lines, i + 1, minDiff, bestIndex)

\* mutant: the threshold test made inclusive (timeDiff <= maxTimeDiff)
findClosestLineInclusive(time, lines) ==
    LET bestIndex == FindClosestLoop(time, lines, 1, maxTimeDiffTrans + 1, 0)
    IN  IF bestIndex # 0 THEN lines[bestIndex].Content ELSE << >>

findClosestLine(time, lines) ==
    LET bestIndex == FindClosestLoop(time, lines, 1, maxTimeDiffTrans, 0)
    IN  IF bestIndex # 0 THEN lines[bestIndex].Content ELSE << >>

(***************************************************************************)
(* matchRomajiLine, lyric-api.go:419.  The returned *LineInfo is modelled  *)
(* as the 1-based index of the element it points to, 0 for nil.            *)
(***************************************************************************)
maxTimeDiffRoma == 100

RECURSIVE MatchRomajiLoop(_, _, _)
MatchRomajiLoop(mainLineTime, romajiLines, i) ==
    IF i > Len(romajiLines) THEN 0
    ELSE IF abs(romajiLines[i].StartTime - mainLineTime) <= maxTimeDiffRoma
         THEN i
         ELSE MatchRomajiLoop(mainLineTime, romajiLines, i + 1)

RECURSIVE MatchRomajiNearestLoop(_, _, _, _, _)
MatchRomajiNearestLoop(mainLineTime, romajiLines, i, minDiff, best) ==
    IF i > Len(romajiLines) THEN best
    ELSE LET d == abs(romajiLines[i].StartTime - mainLineTime)
         IN  IF d < minDiff
             THEN MatchRomajiNearestLoop(mainLineTime, romajiLines, i + 1, d, i)
             ELSE MatchRomajiNearestLoop(mainLineTime, romajiLines, i + 1, minDiff, best)

\* mutant: the nearest line within range instead of the first one
matchRomajiLineNearest(mainLineTime, romajiLines) ==
    MatchRomajiNearestLoop(mainLineTime, romajiLines, 1, maxTimeDiffRoma + 1, 0)

matchRomajiLine(mainLineTime, romajiLines) ==
    MatchRomajiLoop(mainLineTime, romajiLines, 1)

(***************************************************************************)
(* groupLinesIntoDivs, lyric-api.go:341.  A DivInfo's Lines holds the      *)
(* lines themselves (the code holds pointers to them).                     *)
(***************************************************************************)
\* lyric-api.go:355-360 (and 366-371, 385-390): the end of a line's content
ContentEndTime(line) ==
    IF Len(line.Words) > 0
    THEN LET lastWord == line.Words[Len(line.Words)]
         IN  lastWord.StartTime + lastWord.Duration
    ELSE line.EndTime

\* lyric-api.go:365-372, 384-391: set EndTime from the div's last line
CloseDiv(currentDiv) ==
    [currentDiv EXCEPT
        !.EndTime = ContentEndTime(currentDiv.Lines[Len(currentDiv.Lines)])]

\* lyric-api.go:347-350, 374-377
NewDiv(line) == [StartTime |-> line.StartTime, EndTime |-> 0, Lines |-> <<line>>]

RECURSIVE GroupLoop(_, _, _, _, _)
GroupLoop(lines, maxGap, i, divs, currentDiv) ==
    IF i > Len(lines)
    THEN IF Len(currentDiv.Lines) > 0
         THEN Append(divs, CloseDiv(currentDiv))
         ELSE divs
    ELSE LET gap == lines[i].StartTime - ContentEndTime(lines[i - 1])
         IN  IF gap > maxGap
             THEN GroupLoop(lines, maxGap, i + 1,
                            Append(divs, CloseDiv(currentDiv)), NewDiv(lines[i]))
             ELSE GroupLoop(lines, maxGap, i + 1, divs,
                            [currentDiv EXCEPT !.Lines = Append(@, lines[i])])

\* mutant: the gap test made inclusive (gap >= maxGap)
groupLinesIntoDivsInclusive(lines, maxGap) ==
    IF Len(lines) = 0 THEN << >>
    ELSE GroupLoop(lines, maxGap - 1, 2, << >>, NewDiv(lines[1]))

groupLinesIntoDivs(lines, maxGap) ==
    IF Len(lines) = 0 THEN << >>
    ELSE GroupLoop(lines, maxGap, 2, << >>, NewDiv(lines[1]))

\* lyric-api.go:451: the threshold convertYrcToTtml passes
divMaxGap == 1000

(***************************************************************************)
(* isMetadataLine, lyric-api.go:631                                        *)
(***************************************************************************)
MetaPrefixes ==
    { <<"[", "t", "i", ":">>, <<"[", "a", "r", ":">>, <<"[", "a", "l", ":">>,
      <<"[", "b", "y", ":">>, <<"[", "o", "f", "f", "s", "e", "t", ":">>,
      <<"[", "k", "a", "n", "a", ":">>, <<"[", "r", "e", ":">>,
      <<"[", "v", "e", ":">> }

isMetadataLine(line) == \E prefix \in MetaPrefixes : HasPrefix(line, prefix)

(***************************************************************************)
(* yrcLineRe, lyric-api.go:104: at the start "[", digits, ",", digits,     *)
(* "]", then any characters but line feeds up to the end of the text.      *)
(* FindStringSubmatch: << >> (nil) without a match, else the whole match   *)
(* and the three groups.  A run of digits is followed by a character that  *)
(* is no digit, so each group is the whole run.                            *)
(***************************************************************************)
yrcLineReFind(line) ==
    LET e1 == DigitRunEnd(line, 2)
        e2 == DigitRunEnd(line, e1 + 1)
    IN  IF /\ CharAt(line, 1, "[")
           /\ e1 > 2
           /\ CharAt(line, e1, ",")
           /\ e2 > e1 + 1
           /\ CharAt(line, e2, "]")
           /\ \A k \in (e2 + 1)..Len(line) : line[k] # "\n"
        THEN <<line, SubSeq(line, 2, e1 - 1), SubSeq(line, e1 + 1, e2 - 1),
               SubSeq(line, e2 + 1, Len(line))>>
        ELSE << >>

(***************************************************************************)
(* wordInfoRe, lyric-api.go:105: as few characters as possible (the text), *)
(* then the timing "(", digits, ",", digits, ")".                          *)
(***************************************************************************)
\* the timing at position q: the position after its ")", 0 when no timing
\* stands there
WordTimingEnd(s, q) ==
    LET e1 == DigitRunEnd(s, q + 1)
        e2 == DigitRunEnd(s, e1 + 1)
    IN  IF /\ CharAt(s, q, "(")
           /\ e1 > q + 1
           /\ CharAt(s, e1, ",")
           /\ e2 > e1 + 1
           /\ CharAt(s, e2, ")")
        THEN e2 + 1
        ELSE 0

\* the first position q >= p where a timing stands, 0 when none
RECURSIVE FirstWordTiming(_, _)
FirstWordTiming(s, p) ==
    IF p > Len(s) THEN 0
    ELSE IF WordTimingEnd(s, p) # 0 THEN p
    ELSE FirstWordTiming(s, p + 1)

\* FindAllStringSubmatch(s, -1) from position p on: the successive
\* leftmost matches, none overlapping.  The lazy text group starts where
\* the search starts (after the last line feed before the timing, which
\* the dot does not match) and stops at the first timing.
RECURSIVE wordInfoReFindAll(_, _)
wordInfoReFindAll(s, p) ==
    LET q == FirstWordTiming(s, p)
    IN  IF q = 0 THEN << >>
        ELSE LET feeds == {k \in p..(q - 1) : s[k] = "\n"}
                 from == IF feeds = {} THEN p
                         ELSE 1 + CHOOSE k \in feeds : \A j \in feeds : j <= k
                 e1 == DigitRunEnd(s, q + 1)
                 e2 == DigitRunEnd(s, e1 + 1)
             IN  << <<SubSeq(s, from, e2), SubSeq(s, from, q - 1),
                      SubSeq(s, q + 1, e1 - 1), SubSeq(s, e1 + 1, e2 - 1)>> >>
                 \o wordInfoReFindAll(s, e2 + 1)

(***************************************************************************)
(* parseYrcLine, lyric-api.go:168.  The result is (lineInfo, err); on an   *)
(* error the *LineInfo is nil, modelled by NilLineInfo.                    *)
(***************************************************************************)
NilLineInfo == [Words |-> << >>, StartTime |-> 0, EndTime |-> 0]

\* mutant: a zero duration is kept as it is
WordFromMatchUncorrected(match) ==
    IF Atoi(match[4]) = 0 /\ TrimSpace(match[2]) = << >>
    THEN << >>
    ELSE <<[Text |-> match[2], StartTime |-> Atoi(match[3]),
            Duration |-> Atoi(match[4])]>>

\* lyric-api.go:185-204: the words (none or one) a match appends
WordFromMatch(match) ==
    LET text == match[2]
        wordStartTime == Atoi(match[3])
        wordDuration == Atoi(match[4])
    IN  IF wordDuration = 0
        THEN IF TrimSpace(text) # << >>
             THEN <<[Text |-> text, StartTime |-> wordStartTime, Duration |-> 1]>>
             ELSE << >>
        ELSE <<[Text |-> text, StartTime |-> wordStartTime,
                Duration |-> wordDuration]>>

\* lyric-api.go:184-205
RECURSIVE WordsFromMatches(_)
WordsFromMatches(wordMatches) ==
    IF wordMatches = << >> THEN << >>
    ELSE WordFromMatch(Head(wordMatches)) \o WordsFromMatches(Tail(wordMatches))

\* mutant: the header duration is used as it is, also when it is 0
WholeLineWordUnclamped(startTime, duration, content) ==
    [Text |-> content, StartTime |-> startTime, Duration |-> duration]

\* lyric-api.go:208-216
WholeLineWord(startTime, duration, content) ==
    [Text |-> content, StartTime |-> startTime,
     Duration |-> IF duration = 0 THEN 1 ELSE duration]

parseYrcLine(line) ==
    LET matches == yrcLineReFind(line)
    IN  IF Len(matches) # 4
        THEN [err |-> TRUE, lineInfo |-> NilLineInfo]
        ELSE LET startTime == Atoi(matches[2])
                 duration == Atoi(matches[3])
                 content == matches[4]
                 words == WordsFromMatches(wordInfoReFindAll(content, 1))
             IN  [err |-> FALSE,
                  lineInfo |->
                    [Words |-> IF Len(words) = 0 /\ content # << >>
                               THEN <<WholeLineWord(startTime, duration, content)>>
                               ELSE words,
                     StartTime |-> startTime,
                     EndTime |-> startTime + duration]]

(***************************************************************************)
(* parseYrcToLines, lyric-api.go:222                                       *)
(***************************************************************************)
RECURSIVE ParseYrcLinesLoop(_)
ParseYrcLinesLoop(lines) ==
    IF lines = << >> THEN << >>
    ELSE LET line == Head(lines)
             rest == ParseYrcLinesLoop(Tail(lines))
         IN  IF ~HasPrefix(line, <<"[">>) \/ isMetadataLine(line) THEN rest
             ELSE LET r == parseYrcLine(line)
                  IN  IF r.err THEN rest
                      ELSE IF Len(r.lineInfo.Words) = 0 THEN rest
                      ELSE <<r.lineInfo>> \o rest

parseYrcToLines(yrcContent) == ParseYrcLinesLoop(SplitLines(yrcContent))

(***************************************************************************)
(* lrcTimeRe, lyric-api.go:106: at the start "[", two digits, ":", two     *)
(* digits, ".", two or three digits (three when possible), "]", then any   *)
(* characters but line feeds up to the end of the text.                    *)
(* FindStringSubmatch: << >> (nil) without a match, else the whole match   *)
(* and the four groups.                                                    *)
(***************************************************************************)
lrcTimeReFind(line) ==
    LET e == DigitRunEnd(line, 8)      \* the position after the fraction
    IN  IF /\ CharAt(line, 1, "[")
           /\ DigitRunEnd(line, 2) = 4
           /\ CharAt(line, 4, ":")
           /\ DigitRunEnd(line, 5) = 7
           /\ CharAt(line, 7, ".")
           /\ e \in {10, 11}
           /\ CharAt(line, e, "]")
           /\ \A k \in (e + 1)..Len(line) : line[k] # "\n"
        THEN <<line, SubSeq(line, 2, 3), SubSeq(line, 5, 6), SubSeq(line, 8, e - 1),
               SubSeq(line, e + 1, Len(line))>>
        ELSE << >>

\* lyric-api.go:259-271 (and 316-326): the time of a matched line
LrcTotalMs(matches) ==
    LET minutes == Atoi(matches[2])
        seconds == Atoi(matches[3])
        msStr == matches[4]
        milliseconds == IF Len(msStr) = 2 THEN Atoi(msStr) * 10 ELSE Atoi(msStr)
    IN  minutes * 60 * 1000 + seconds * 1000 + milliseconds

(***************************************************************************)
(* msToLrcTime, lyric-api.go:594.  ms is never negative here.              *)
(***************************************************************************)
DigitChar(d) ==
    CASE d = 0 -> "0" [] d = 1 -> "1" [] d = 2 -> "2" [] d = 3 -> "3"
      [] d = 4 -> "4" [] d = 5 -> "5" [] d = 6 -> "6" [] d = 7 -> "7"
      [] d = 8 -> "8" [] d = 9 -> "9"

\* the decimal digits of n >= 0
RECURSIVE Itoa(_)
Itoa(n) == IF n < 10 THEN <<DigitChar(n)>> ELSE Itoa(n \div 10) \o <<DigitChar(n % 10)>>

\* fmt's %02d for n >= 0: at least two digits, padded with zeros
Fmt02d(n) == IF n < 10 THEN <<"0">> \o Itoa(n) ELSE Itoa(n)

\* mutant: the seconds are not reduced modulo 60
msToLrcTimeNoCarry(ms) ==
    LET seconds == ms \div 1000
        milliseconds == (ms % 1000) \div 10
        minutes == seconds \div 60
    IN  <<"[">> \o Fmt02d(minutes) \o <<":">> \o Fmt02d(seconds) \o <<".">>
              \o Fmt02d(milliseconds) \o <<"]">>

msToLrcTime(ms) ==
    LET seconds == ms \div 1000
        milliseconds == (ms % 1000) \div 10
        minutes == seconds \div 60
    IN  <<"[">> \o Fmt02d(minutes) \o <<":">> \o Fmt02d(seconds % 60) \o <<".">>
              \o Fmt02d(milliseconds) \o <<"]">>

(***************************************************************************)
(* parseLrcTimedLines, lyric-api.go:243                                    *)
(***************************************************************************)
\* the watermarks of lyric-api.go:274; a character outside ASCII is named
\* by its code point
WatermarkQQMusic == <<"Q", "Q", "U+97F3", "U+4E50">>
WatermarkProducedBy == <<"U+5236", "U+4F5C">>

\* lyric-api.go:251-281: the entries (none or one) a line appends
TimedLineFrom(rawLine) ==
    LET line == TrimSpace(rawLine)
        matches == lrcTimeReFind(line)
    IN  IF line = << >> \/ Len(matches) # 5 THEN << >>
        ELSE LET content == TrimSpace(matches[5])
             IN  IF /\ content # << >>
                    /\ content # <<"/", "/">>
                    /\ ~Contains(content, WatermarkQQMusic)
                    /\ ~Contains(content, WatermarkProducedBy)
                 THEN <<[Time |-> LrcTotalMs(matches), Content |-> content]>>
                 ELSE << >>

RECURSIVE TimedLinesFrom(_)
TimedLinesFrom(lines) ==
    IF lines = << >> THEN << >>
    ELSE TimedLineFrom(Head(lines)) \o TimedLinesFrom(Tail(lines))

\* insertionSort_func of the sort package, which sort.Slice (lyric-api.go:283)
\* runs on a range of at most 12 elements: an element moves left past the
\* elements of strictly greater Time
RECURSIVE InsertByTime(_, _)
InsertByTime(sorted, x) ==
    IF sorted # << >> /\ x.Time < sorted[Len(sorted)].Time
    THEN Append(InsertByTime(SubSeq(sorted, 1, Len(sorted) - 1), x),
                sorted[Len(sorted)])
    ELSE Append(sorted, x)

RECURSIVE SortByTime(_)
SortByTime(timedLines) ==
    IF timedLines = << >> THEN << >>
    ELSE InsertByTime(SortByTime(SubSeq(timedLines, 1, Len(timedLines) - 1)),
                      timedLines[Len(timedLines)])

(***************************************************************************)
(* sort.Slice, lyric-api.go:283: pdqsort_func of the sort package (Go 1.19 *)
(* and later).  A slice of more than maxInsertion elements is left as it   *)
(* is when it is found in order; otherwise it is partitioned around the    *)
(* median of three of its elements, which is first swapped to the front,   *)
(* and the two sides are sorted in turn.  The texts of the model retain at *)
(* most 13 lines: each side then holds at most 12 and is sorted by         *)
(* insertion, and the steps the library takes on longer ranges after an    *)
(* unbalanced partition are not reached.                                   *)
(***************************************************************************)
maxInsertion == 12

\* lyric-api.go:283-285, the less function
less(x, y) == x.Time < y.Time

Swap(data, i, j) == [data EXCEPT ![i] = data[j], ![j] = data[i]]

\* order2_func: a and b in the order of their elements, and the swaps counted
order2(data, a, b, swaps) ==
    IF less(data[b], data[a]) THEN <<b, a, swaps + 1>> ELSE <<a, b, swaps>>

\* median_func
median(data, a, b, c) ==
    LET r1 == order2(data, a, b, 0)
        r2 == order2(data, r1[2], c, r1[3])
        r3 == order2(data, r1[1], r2[1], r2[3])
    IN  [pivot |-> r3[2], swaps |-> r3[3]]

\* choosePivot_func on a range of 8 to 49 elements
choosePivot(data) ==
    LET l == Len(data)
    IN  median(data, (l \div 4) + 1, (l \div 4) * 2 + 1, (l \div 4) * 3 + 1)

\* partialInsertionSort_func on a range of fewer than 50 elements: it
\* reports whether the range is in order and moves nothing
partialInsertionSort(data) ==
    \A i \in 2..Len(data) : ~less(data[i], data[i - 1])

\* partition_func: the pivot is at the front
RECURSIVE ScanUp(_, _, _)
ScanUp(data, i, j) ==
    IF i <= j /\ less(data[i], data[1]) THEN ScanUp(data, i + 1, j) ELSE i

RECURSIVE ScanDown(_, _, _)
ScanDown(data, i, j) ==
    IF i <= j /\ ~less(data[j], data[1]) THEN ScanDown(data, i, j - 1) ELSE j

RECURSIVE PartitionLoop(_, _, _)
PartitionLoop(data, i, j) ==
    LET i1 == ScanUp(data, i, j)
        j1 == ScanDown(data, i1, j)
    IN  IF i1 > j1
        THEN [data |-> Swap(data, j1, 1), mid |-> j1]
        ELSE PartitionLoop(Swap(data, i1, j1), i1 + 1, j1 - 1)

partition(data, pivot) == PartitionLoop(Swap(data, 1, pivot), 2, Len(data))

RECURSIVE sortSlice(_)
pdqsort(data) ==
    LET chosen == choosePivot(data)
    IN  IF chosen.swaps = 0 /\ partialInsertionSort(data)
        THEN data
        ELSE LET parted == partition(data, chosen.pivot)
             IN  sortSlice(SubSeq(parted.data, 1, parted.mid - 1))
                 \o <<parted.data[parted.mid]>>
                 \o sortSlice(SubSeq(parted.data, parted.mid + 1, Len(data)))

sortSlice(timedLines) ==
    IF Len(timedLines) <= maxInsertion
    THEN SortByTime(timedLines)
    ELSE pdqsort(timedLines)

parseLrcTimedLines(lrcContent) ==
    IF TrimSpace(lrcContent) = << >> THEN << >>
    ELSE sortSlice(TimedLinesFrom(SplitLines(lrcContent)))

(***************************************************************************)
(* mergeLrcWithTranslation, lyric-api.go:291                               *)
(***************************************************************************)
\* lyric-api.go:314-335: the translation line written after a lyric line
TranslationFor(line, translations) ==
    LET matches == lrcTimeReFind(line)
    IN  IF Len(matches) # 5 THEN << >>
        ELSE LET totalMs == LrcTotalMs(matches)
                 transText == findClosestLine(totalMs, translations)
             IN  IF transText # << >>
                 THEN msToLrcTime(totalMs) \o transText \o <<"\n">>
                 ELSE << >>

\* mutant: the translation line is written before the original line
MergeLineTranslationFirst(rawLine, translations) ==
    LET line == TrimSpace(rawLine)
    IN  IF line = << >> THEN << >>
        ELSE IF isMetadataLine(line) THEN line \o <<"\n">>
        ELSE TranslationFor(line, translations) \o line \o <<"\n">>

\* lyric-api.go:300-336: what one line of the original adds to the result
MergeLine(rawLine, translations) ==
    LET line == TrimSpace(rawLine)
    IN  IF line = << >> THEN << >>
        ELSE IF isMetadataLine(line) THEN line \o <<"\n">>
        ELSE line \o <<"\n">> \o TranslationFor(line, translations)

RECURSIVE MergeLoop(_, _)
MergeLoop(lines, translations) ==
    IF lines = << >> THEN << >>
    ELSE MergeLine(Head(lines), translations) \o MergeLoop(Tail(lines), translations)

mergeLrcWithTranslation(originalLrc, transLrc) ==
    IF TrimSpace(transLrc) = << >> THEN originalLrc
    ELSE MergeLoop(SplitLines(originalLrc), parseLrcTimedLines(transLrc))

(***************************************************************************)
(* msToEnhancedLrcTime, lyric-api.go:602, and msToTtmlTime, lyric-api.go:  *)
(* 610.  ms is never negative here.                                        *)
(***************************************************************************)
msToEnhancedLrcTime(ms) ==
    LET seconds == ms \div 1000
        milliseconds == (ms % 1000) \div 10
        minutes == seconds \div 60
    IN  <<"<">> \o Fmt02d(minutes) \o <<":">> \o Fmt02d(seconds % 60) \o <<".">>
              \o Fmt02d(milliseconds) \o <<">">>

\* fmt's %03d for n >= 0
Fmt03d(n) == IF n < 10 THEN <<"0", "0">> \o Itoa(n)
             ELSE IF n < 100 THEN <<"0">> \o Itoa(n)
             ELSE Itoa(n)

msToTtmlTime(ms) ==
    LET hours == ms \div 3600000
        ms1 == ms % 3600000
        minutes == ms1 \div 60000
        ms2 == ms1 % 60000
        seconds == ms2 \div 1000
        milliseconds == ms2 % 1000
    IN  IF hours > 0
        THEN Fmt02d(hours) \o <<":">> \o Fmt02d(minutes) \o <<":">>
                 \o Fmt02d(seconds) \o <<".">> \o Fmt03d(milliseconds)
        ELSE Fmt02d(minutes) \o <<":">> \o Fmt02d(seconds) \o <<".">>
                 \o Fmt03d(milliseconds)

(***************************************************************************)
(* parseLrcMeta, lyric-api.go:155.  The map is modelled as the sequence of *)
(* its (key, value) entries, one per key, in the order the keys first      *)
(* occur; the value is the one of the key's last occurrence.               *)
(***************************************************************************)
MetaKeys ==
    { <<"t", "i">>, <<"a", "r">>, <<"a", "l">>, <<"b", "y">>,
      <<"o", "f", "f", "s", "e", "t">>, <<"k", "a", "n", "a">>,
      <<"r", "e">>, <<"v", "e">> }

\* metaRe, lyric-api.go:107: at the start "[", one of the keys, ":", then
\* the value, which ends before a "]" at the end of the text and holds no
\* line feed.  << >> (nil) without a match, else the match and two groups.
metaReFind(line) ==
    IF \E key \in MetaKeys :
          /\ HasPrefix(line, <<"[">> \o key \o <<":">>)
          /\ Len(line) >= Len(key) + 3
          /\ line[Len(line)] = "]"
          /\ \A k \in DOMAIN line : line[k] # "\n"
    THEN LET key == CHOOSE k \in MetaKeys : HasPrefix(line, <<"[">> \o k \o <<":">>)
         IN  <<line, key, SubSeq(line, Len(key) + 3, Len(line) - 1)>>
    ELSE << >>

\* meta[key] = value
MetaPut(meta, key, value) ==
    IF \E i \in DOMAIN meta : meta[i].key = key
    THEN [i \in DOMAIN meta |->
             IF meta[i].key = key THEN [key |-> key, value |-> value] ELSE meta[i]]
    ELSE Append(meta, [key |-> key, value |-> value])

RECURSIVE ParseLrcMetaLoop(_, _)
ParseLrcMetaLoop(lines, meta) ==
    IF lines = << >> THEN meta
    ELSE LET matches == metaReFind(Head(lines))
         IN  IF Len(matches) = 3
             THEN ParseLrcMetaLoop(Tail(lines),
                      MetaPut(meta, TrimSpace(matches[2]), TrimSpace(matches[3])))
             ELSE ParseLrcMetaLoop(Tail(lines), meta)

parseLrcMeta(lrcContent) == ParseLrcMetaLoop(SplitLines(lrcContent), << >>)

(***************************************************************************)
(* calculateSongDuration, lyric-api.go:397                                 *)
(***************************************************************************)
RECURSIVE MaxEndTimeLoop(_, _)
MaxEndTimeLoop(lines, maxEndTime) ==
    IF lines = << >> THEN maxEndTime
    ELSE LET lineContentEndTime == ContentEndTime(Head(lines))
         IN  MaxEndTimeLoop(Tail(lines),
                            IF lineContentEndTime > maxEndTime
                            THEN lineContentEndTime ELSE maxEndTime)

calculateSongDuration(lines) ==
    IF Len(lines) = 0 THEN 0 ELSE MaxEndTimeLoop(lines, 0) + 1000

(***************************************************************************)
(* convertYrcToTtml, lyric-api.go:430.  The text is the sequence of what   *)
(* the code writes to the builder: a literal of the code is one element,   *)
(* a text that comes from the input is its characters.  The result is      *)
(* (ttml, err); err is "nil" or the error.                                 *)
(***************************************************************************)
ErrNoValidYrcLines == "no valid YRC lines"   \* lyric-api.go:439

\* lyric-api.go:476-480
RECURSIVE TtmlWordSpans(_)
TtmlWordSpans(words) ==
    IF words = << >> THEN << >>
    ELSE LET word == Head(words)
         IN  <<"                <span begin=\"">> \o msToTtmlTime(word.StartTime)
             \o <<"\" end=\"">> \o msToTtmlTime(word.StartTime + word.Duration)
             \o <<"\">">> \o word.Text \o <<"</span>\n">>
             \o TtmlWordSpans(Tail(words))

\* lyric-api.go:491-497: the texts of the words that are not blank
RECURSIVE RomaWordTexts(_)
RomaWordTexts(words) ==
    IF words = << >> THEN << >>
    ELSE (IF TrimSpace(Head(words).Text) # << >> THEN Head(words).Text ELSE << >>)
         \o RomaWordTexts(Tail(words))

\* lyric-api.go:487-504
TtmlRomaSpan(mainLineTime, parsedRomaji) ==
    LET romaLine == matchRomajiLine(mainLineTime, parsedRomaji)
    IN  IF romaLine = 0 THEN << >>
        ELSE LET romaText == TrimSpace(RomaWordTexts(parsedRomaji[romaLine].Words))
             IN  IF romaText # << >>
                 THEN <<"                <span ttm:role=\"x-roman\">">> \o romaText
                      \o <<"</span>\n">>
                 ELSE << >>

\* lyric-api.go:482-485
TtmlTransSpan(mainLineTime, translations) ==
    LET transText == findClosestLine(mainLineTime, translations)
    IN  IF transText # << >>
        THEN <<"                <span ttm:role=\"x-translation\" xml:lang=\"zh-CN\">">>
             \o transText \o <<"</span>\n">>
        ELSE << >>

\* lyric-api.go:462-508: the <p> of one line
TtmlLine(line, lineCounter, translations, parsedRomaji) ==
    <<"            <p begin=\"">> \o msToTtmlTime(line.StartTime)
    \o <<"\" end=\"">> \o msToTtmlTime(ContentEndTime(line))
    \o <<"\" ttm:agent=\"v1\" itunes:key=\"L">> \o Itoa(lineCounter) \o <<"\">\n">>
    \o TtmlWordSpans(line.Words)
    \o TtmlTransSpan(line.StartTime, translations)
    \o TtmlRomaSpan(line.StartTime, parsedRomaji)
    \o <<"            </p>\n">>

RECURSIVE TtmlLines(_, _, _, _)
TtmlLines(lines, lineCounter, translations, parsedRomaji) ==
    IF lines = << >> THEN << >>
    ELSE TtmlLine(Head(lines), lineCounter, translations, parsedRomaji)
         \o TtmlLines(Tail(lines), lineCounter + 1, translations, parsedRomaji)

\* lyric-api.go:456-514
RECURSIVE TtmlDivs(_, _, _, _, _)
TtmlDivs(divs, divIdx, lineCounter, translations, parsedRomaji) ==
    IF divIdx > Len(divs) THEN << >>
    ELSE LET div == divs[divIdx]
         IN  <<"        <div begin=\"">> \o msToTtmlTime(div.StartTime)
             \o <<"\" end=\"">> \o msToTtmlTime(div.EndTime) \o <<"\">\n">>
             \o TtmlLines(div.Lines, lineCounter, translations, parsedRomaji)
             \o <<"        </div>\n">>
             \o (IF divIdx < Len(divs) THEN <<"\n">> ELSE << >>)
             \o TtmlDivs(divs, divIdx + 1, lineCounter + Len(div.Lines),
                         translations, parsedRomaji)

convertYrcToTtml(data) ==
    LET translations == parseLrcTimedLines(data.Trans)
        parsedLines == parseYrcToLines(data.Yrc)
        parsedRomaji == parseYrcToLines(data.Roma)
    IN  IF Len(parsedLines) = 0
        THEN [ttml |-> << >>, err |-> ErrNoValidYrcLines]
        ELSE [ttml |->
                 <<"<?xml version=\"1.0\" encoding=\"UTF-8\"?>\n",
                   "<tt xmlns=\"http://www.w3.org/ns/ttml\" xmlns:ttm=\"http://www.w3.org/ns/ttml#metadata\" xmlns:itunes=\"http://music.apple.com/lyric-ttml-internal\" itunes:timing=\"Word\">\n",
                   "    <head>\n        <metadata>\n",
                   "            <ttm:agent type=\"person\" xml:id=\"v1\"/>\n",
                   "        </metadata>\n    </head>\n",
                   "    <body dur=\"">>
                 \o msToTtmlTime(calculateSongDuration(parsedLines)) \o <<"\">\n">>
                 \o TtmlDivs(groupLinesIntoDivs(parsedLines, divMaxGap), 1, 1,
                             translations, parsedRomaji)
                 \o <<"    </body>\n</tt>\n">>,
              err |-> "nil"]

(***************************************************************************)
(* convertYrcToEnhancedLrc, lyric-api.go:520.  Go ranges over the map of   *)
(* the metadata in an order it does not fix: order is the permutation of   *)
(* the map's entries the run takes.  The error is always nil.              *)
(***************************************************************************)
\* lyric-api.go:525-529
RECURSIVE EslrcMeta(_, _)
EslrcMeta(meta, order) ==
    IF order = << >> THEN << >>
    ELSE LET e == meta[Head(order)]
         IN  (IF e.key # <<"k", "a", "n", "a">>
              THEN <<"[">> \o e.key \o <<":">> \o e.value \o <<"]", "\n">>
              ELSE << >>)
             \o EslrcMeta(meta, Tail(order))

\* lyric-api.go:550-554
RECURSIVE EslrcWords(_)
EslrcWords(words) ==
    IF words = << >> THEN << >>
    ELSE msToEnhancedLrcTime(Head(words).StartTime) \o Head(words).Text
         \o EslrcWords(Tail(words))

\* lyric-api.go:536-570: what one line of the YRC text adds
EslrcLine(rawLine, translations) ==
    LET line == TrimSpace(rawLine)
    IN  IF line = << >> \/ isMetadataLine(line) THEN << >>
        ELSE LET r == parseYrcLine(line)
             IN  IF r.err \/ Len(r.lineInfo.Words) = 0 THEN << >>
                 ELSE LET lineInfo == r.lineInfo
                          mainTimestamp == msToLrcTime(lineInfo.StartTime)
                          lastWord == lineInfo.Words[Len(lineInfo.Words)]
                          translation ==
                              IF Len(translations) > 0
                              THEN findClosestLine(lineInfo.StartTime, translations)
                              ELSE << >>
                      IN  mainTimestamp \o EslrcWords(lineInfo.Words)
                          \o msToEnhancedLrcTime(lastWord.StartTime + lastWord.Duration)
                          \o <<"\n">>
                          \o (IF translation # << >>
                              THEN mainTimestamp \o translation \o <<"\n">>
                              ELSE << >>)

RECURSIVE EslrcLines(_, _)
EslrcLines(rawLines, translations) ==
    IF rawLines = << >> THEN << >>
    ELSE EslrcLine(Head(rawLines), translations)
         \o EslrcLines(Tail(rawLines), translations)

convertYrcToEnhancedLrc(yrcContent, lrcContent, transContent, romaContent, order) ==
    EslrcMeta(parseLrcMeta(lrcContent), order)
    \o EslrcLines(SplitLines(yrcContent), parseLrcTimedLines(transContent))

\* the orders in which a map of n entries can be ranged over
RangeOrders(n) ==
    {f \in [1..n -> 1..n] : \A i, j \in 1..n : f[i] = f[j] => i = j}

(***************************************************************************)
(* Inputs of the matchers.                                                 *)
(***************************************************************************)
MetaLineTimes == {1000, 1002, 2000}
MetaLineContents == {<<"a">>, <<"b">>}
MetaLinePool == [Time : MetaLineTimes, Content : MetaLineContents]
QueryTimes == {499, 500, 501, 1001, 1499, 1500, 1501, 1502}

RomaStartTimes == {899, 900, 950, 1000, 1100, 1101}
RomaLinePool ==
    {[Words |-> <<[Text |-> <<"r">>, StartTime |-> s, Duration |-> 10]>>,
      StartTime |-> s, EndTime |-> s + 10] : s \in RomaStartTimes}
MainLineTimes == {1000, 1001}

(***************************************************************************)
(* Inputs of the paragraph grouper: lines starting at 0, 1000, 2100 and    *)
(* 3201, either without words (the content ends at EndTime = start + 100)  *)
(* or with two words ending at start + 101.                                *)
(***************************************************************************)
GroupStartTimes == {0, 1000, 2100, 3201}
GroupLinePool ==
    {[Words |-> << >>, StartTime |-> s, EndTime |-> s + 100] : s \in GroupStartTimes}
    \cup
    {[Words |-> <<[Text |-> <<"a">>, StartTime |-> s, Duration |-> 50],
                  [Text |-> <<"b">>, StartTime |-> s + 50, Duration |-> 51]>>,
      StartTime |-> s, EndTime |-> s + 100] : s \in GroupStartTimes}

(***************************************************************************)
(* Inputs of the YRC parser: a header (well formed, malformed or missing)  *)
(* followed by up to MaxYrcPieces pieces of word markup and plain text.    *)
(***************************************************************************)
YrcHeaders ==
    { <<"[", "5", ",", "0", "]">>,          \* [5,0]
      <<"[", "5", ",", "7", "]">>,          \* [5,7]
      <<"[", "5", ";", "7", "]">>,          \* [5;7]   no header
      << >> }
YrcPieces ==
    { <<"a", "(", "1", ",", "0", ")">>,             \* a(1,0)
      <<" ", "(", "2", ",", "0", ")">>,             \*  (2,0)
      <<"(", "3", ",", "0", ")">>,                  \* (3,0)
      <<"c", "(", "1", "0", ",", "0", "0", ")">>,   \* c(10,00)
      <<"b", "(", "4", ",", "2", ")">>,             \* b(4,2)
      <<" ", "(", "6", ",", "3", ")">>,             \*  (6,3)
      <<"a">>,
      <<" ">>,
      <<"(", "1", ",">> }                           \* (1,
YrcLineInputs ==
    {h \o Concat(ps) : h \in YrcHeaders, ps \in SeqsUpTo(YrcPieces, MaxYrcPieces)}

\* the lines of the YRC documents handed to parseYrcToLines
YrcDocLines ==
    { <<"[", "5", ",", "7", "]", "a", "(", "1", ",", "0", ")">>,    \* [5,7]a(1,0)
      <<"[", "5", ",", "7", "]", " ", "(", "2", ",", "0", ")">>,    \* [5,7] (2,0)
      <<"[", "9", ",", "0", "]", "b", "(", "9", ",", "2", ")",
        " ", "(", "9", ",", "0", ")">>,                            \* [9,0]b(9,2) (9,0)
      <<"[", "5", ",", "7", "]">>,                                  \* [5,7]
      <<"[", "5", ";", "7", "]">>,                                  \* [5;7]
      <<"[", "t", "i", ":", "x", "]">>,                             \* [ti:x]
      <<"x">> }

\* s1 "\n" s2 "\n" ... sn
RECURSIVE JoinLines(_)
JoinLines(ss) ==
    IF ss = << >> THEN << >>
    ELSE IF Len(ss) = 1 THEN Head(ss)
    ELSE Head(ss) \o <<"\n">> \o JoinLines(Tail(ss))

YrcDocInputs == {JoinLines(ls) : ls \in SeqsUpTo(YrcDocLines, MaxYrcLines)}

(***************************************************************************)
(* Inputs of the LRC time codec: every timestamp the pattern accepts whose *)
(* digits are among LrcDigits.                                             *)
(***************************************************************************)
LrcDigits == {"0", "6", "9"}
LrcTimestamps ==
    {<<"[", m1, m2, ":", s1, s2, ".">> \o f \o <<"]">> :
        m1 \in LrcDigits, m2 \in LrcDigits, s1 \in LrcDigits, s2 \in LrcDigits,
        f \in [1..2 -> LrcDigits] \cup [1..3 -> LrcDigits]}

(***************************************************************************)
(* Inputs of mergeLrcWithTranslation: texts of up to MaxLrcLines original  *)
(* lines and up to MaxTransLines translation lines.                        *)
(***************************************************************************)
LrcLines ==
    { <<"[", "0", "0", ":", "0", "1", ".", "0", "0", "]", "a">>,        \* [00:01.00]a
      <<"[", "0", "0", ":", "0", "1", ".", "1", "2", "3", "]", "b">>,   \* [00:01.123]b
      <<" ", "[", "0", "0", ":", "0", "2", ".", "5", "0", "]", "c", "\r">>,
      <<"[", "t", "i", ":", "x", "]">>,                                 \* [ti:x]
      <<"n", "o">>,                                                     \* no
      << >> }
TransLines ==
    { <<"[", "0", "0", ":", "0", "1", ".", "0", "0", "]", "A">>,        \* [00:01.00]A
      <<"[", "0", "0", ":", "0", "1", ".", "4", "9", "]", "B", "\r">>,  \* [00:01.49]B
      <<"[", "0", "0", ":", "0", "2", ".", "0", "0", "]", "C">>,        \* [00:02.00]C
      <<"[", "0", "0", ":", "0", "2", ".", "5", "0", "]", "/", "/">>,   \* [00:02.50]//
      <<" ">> }
LrcInputs == {JoinLines(ls) : ls \in SeqsUpTo(LrcLines, MaxLrcLines)}
TransInputs == {JoinLines(ls) : ls \in SeqsUpTo(TransLines, MaxTransLines)}

(***************************************************************************)
(* Inputs of parseLrcTimedLines: texts of up to MaxSortLines lines, some   *)
(* of the same time, and texts of 13 lines [00:ss.00]x, x the letter of    *)
(* the line's place in the text, of which at most two are a second late.   *)
(***************************************************************************)
MaxSortLines == 3

SortLines ==
    { <<"[", "0", "0", ":", "0", "2", ".", "0", "0", "]", "a">>,        \* [00:02.00]a
      <<"[", "0", "0", ":", "0", "1", ".", "0", "0", "]", "b">>,        \* [00:01.00]b
      <<"[", "0", "0", ":", "0", "1", ".", "0", "0", "]", "c">>,        \* [00:01.00]c
      <<"[", "0", "0", ":", "0", "1", ".", "0", "0", "]", "/", "/">>,   \* [00:01.00]//
      <<"[", "t", "i", ":", "x", "]">> }                                \* [ti:x]

Letters == <<"a", "b", "c", "d", "e", "f", "g", "h", "i", "j", "k", "l", "m">>

LrcLineAt(seconds, k) ==
    <<"[", "0", "0", ":">> \o Fmt02d(seconds) \o <<".", "0", "0", "]", Letters[k]>>

\* [00:01.00]a ... [00:05.00]e [00:07.00]f [00:07.00]g [00:08.00]h ...
\* [00:11.00]k [00:13.00]l [00:12.00]m
LrcThirteenLines ==
    JoinLines([k \in 1..13 |->
                  LrcLineAt(CASE k <= 5 -> k
                              [] k = 6 -> 7
                              [] k = 12 -> 13
                              [] k = 13 -> 12
                              [] OTHER -> k, k)])

SortInputs ==
    {JoinLines(ls) : ls \in SeqsUpTo(SortLines, MaxSortLines)}
    \cup {LrcThirteenLines}
    \cup {JoinLines([k \in 1..Len(Letters) |->
                        LrcLineAt(IF k \in late THEN 2 ELSE 1, k)]) :
             late \in {l \in SUBSET (1..Len(Letters)) : Cardinality(l) <= 2}}

(***************************************************************************)
(* Inputs of buildResponse: the four texts of the upstream answer.         *)
(***************************************************************************)
BuildResponseLrc ==
    { << >>,
      \* [00:01.00]a
      <<"[", "0", "0", ":", "0", "1", ".", "0", "0", "]", "a">>,
      \* [ti:x] / [00:01.00]a
      <<"[", "t", "i", ":", "x", "]">>
        \o <<"\n">> \o <<"[", "0", "0", ":", "0", "1", ".", "0", "0", "]", "a">>,
      \* [ti:x] / [ar:y]
      <<"[", "t", "i", ":", "x", "]">> \o <<"\n">> \o <<"[", "a", "r", ":", "y", "]">> }
BuildResponseTrans ==
    { << >>,
      \* [00:01.00]A
      <<"[", "0", "0", ":", "0", "1", ".", "0", "0", "]", "A">> }
BuildResponseYrc ==
    { << >>,
      \* [1000,500]a(1000,0)b(1200,300)
      <<"[", "1", "0", "0", "0", ",", "5", "0", "0", "]", "a", "(", "1", "0", "0", "0", ",", "0", ")">>
        \o <<"b", "(", "1", "2", "0", "0", ",", "3", "0", "0", ")">>,
      \* [5;7] / x      no structural line
      <<"[", "5", ";", "7", "]">> \o <<"\n">> \o <<"x">>,
      \* [5,7]          a structural line without words
      <<"[", "5", ",", "7", "]">> }
BuildResponseRoma ==
    { << >>,
      \* [1050,5]r(1050,5)
      <<"[", "1", "0", "5", "0", ",", "5", "]", "r", "(", "1", "0", "5", "0", ",", "5", ")">> }
BuildResponseData ==
    [Lrc : BuildResponseLrc, Trans : BuildResponseTrans,
     Yrc : BuildResponseYrc, Roma : BuildResponseRoma]

(***************************************************************************)
(* stringBuilderPool, lyric-api.go:110, and the goroutines that run        *)
(* convertYrcToTtml, lyric-api.go:430, against it.  A strings.Builder is   *)
(* a byte slice: buf names the array in the heap (0 is nil) and len is how *)
(* much of it is written.  A Go string is a pointer and a length too:      *)
(* Builder.String returns the builder's own array, without a copy.         *)
(***************************************************************************)
NumProcs == 2
MaxInvocations == 3
MaxBuilders == 2

Procs == 1..NumProcs

NilBuilder == [buf |-> 0, len |-> 0]     \* new(strings.Builder)
EmptyString == [buf |-> 0, len |-> 0]    \* ""

\* the text a string value reads as
StringText(s) == IF s.buf = 0 THEN << >> ELSE SubSeq(heap[s.buf], 1, s.len)

\* append(buf, chunk...) within the capacity of the array: the bytes from
\* len on are overwritten, the ones before it are left as they are
AppendInPlace(array, len, chunk) ==
    SubSeq(array, 1, len) \o chunk
        \o SubSeq(array, len + Len(chunk) + 1, Len(array))

\* the writes of lines 442-446 come before the first value that is computed
TtmlPreambleWrites == 5

\* lyric-api.go:442-516, the writes to the builder in two batches
TtmlWrites(data) ==
    LET text == convertYrcToTtml(data).ttml
    IN  << SubSeq(text, 1, TtmlPreambleWrites),
           SubSeq(text, TtmlPreambleWrites + 1, Len(text)) >>

NoData == [Lrc |-> << >>, Trans |-> << >>, Yrc |-> << >>, Roma |-> << >>]
IdleConv ==
    [at |-> "idle", data |-> NoData, sb |-> 0, pending |-> << >>,
     wrote |-> << >>, str |-> EmptyString, err |-> "nil"]

\* the invocations that are running
Running == {p \in Procs : conv[p].at # "idle"}

\* an input without translation, one with translation and romanization, and
\* one whose YRC has no valid line
PoolData ==
    { d \in BuildResponseData :
        /\ d.Lrc = << >>
        /\ d.Yrc # << >>
        /\ (d.Trans = << >>) <=> (d.Roma = << >>)
        /\ Len(parseYrcToLines(d.Yrc)) = 0 =>
              (d.Trans = << >> /\ Len(SplitLines(d.Yrc)) = 1) }

(***************************************************************************)
(* The specification.                                                      *)
(***************************************************************************)
Init ==
    /\ op = "idle"
    /\ args = << >>
    /\ ret = << >>
    /\ pc = "none"
    /\ err = "nil"
    /\ stringBuilderPool = {}
    /\ builders = << >>
    /\ heap = << >>
    /\ conv = [p \in Procs |-> IdleConv]
    /\ results = {}
    /\ invocations = 0

CallFindClosestLine ==
    /\ op = "idle"
    /\ \E time \in QueryTimes, lines \in SeqsUpTo(MetaLinePool, MaxMetaLines) :
        /\ op' = "findClosestLine"
        /\ args' = [time |-> time, lines |-> lines]
        /\ ret' = [content |-> findClosestLine(time, lines)]
    /\ UNCHANGED <<pc, err>>
    /\ UNCHANGED poolVars

CallMatchRomajiLine ==
    /\ op = "idle"
    /\ \E t \in MainLineTimes, lines \in SeqsUpTo(RomaLinePool, MaxRomaLines) :
        /\ op' = "matchRomajiLine"
        /\ args' = [mainLineTime |-> t, romajiLines |-> lines]
        /\ ret' = [line |-> matchRomajiLine(t, lines)]
    /\ UNCHANGED <<pc, err>>
    /\ UNCHANGED poolVars

CallGroupLinesIntoDivs ==
    /\ op = "idle"
    /\ \E lines \in SeqsUpTo(GroupLinePool, MaxGroupLines) :
        /\ op' = "groupLinesIntoDivs"
        /\ args' = [lines |-> lines, maxGap |-> divMaxGap]
        /\ ret' = [divs |-> groupLinesIntoDivs(lines, divMaxGap)]
    /\ UNCHANGED <<pc, err>>
    /\ UNCHANGED poolVars

CallParseYrcLine ==
    /\ op = "idle"
    /\ \E line \in YrcLineInputs :
        /\ op' = "parseYrcLine"
        /\ args' = [line |-> line]
        /\ ret' = parseYrcLine(line)
    /\ UNCHANGED <<pc, err>>
    /\ UNCHANGED poolVars

CallParseYrcToLines ==
    /\ op = "idle"
    /\ \E yrcContent \in YrcDocInputs :
        /\ op' = "parseYrcToLines"
        /\ args' = [yrcContent |-> yrcContent]
        /\ ret' = [lines |-> parseYrcToLines(yrcContent)]
    /\ UNCHANGED <<pc, err>>
    /\ UNCHANGED poolVars

\* decode, encode, decode again
CallLrcTimeCodec ==
    /\ op = "idle"
    /\ \E line \in LrcTimestamps :
        LET first == LrcTotalMs(lrcTimeReFind(line))
            encoded == msToLrcTime(first)
            again == lrcTimeReFind(encoded)
        IN  /\ op' = "lrcTimeCodec"
            /\ args' = [line |-> line]
            /\ ret' = [first |-> first, encoded |-> encoded,
                       decodes |-> (again # << >>),
                       second |-> IF again # << >> THEN LrcTotalMs(again) ELSE 0]
    /\ UNCHANGED <<pc, err>>
    /\ UNCHANGED poolVars

\* lyric-api.go:243-288
CallParseLrcTimedLines ==
    /\ op = "idle"
    /\ \E lrcContent \in SortInputs :
        /\ op' = "parseLrcTimedLines"
        /\ args' = [lrcContent |-> lrcContent]
        /\ ret' = [timedLines |-> parseLrcTimedLines(lrcContent)]
    /\ UNCHANGED <<pc, err>>
    /\ UNCHANGED poolVars

CallMergeLrcWithTranslation ==
    /\ op = "idle"
    /\ \E originalLrc \in LrcInputs, transLrc \in TransInputs :
        /\ op' = "mergeLrcWithTranslation"
        /\ args' = [originalLrc |-> originalLrc, transLrc |-> transLrc]
        /\ ret' = [lrc |-> mergeLrcWithTranslation(originalLrc, transLrc)]
    /\ UNCHANGED <<pc, err>>
    /\ UNCHANGED poolVars

(***************************************************************************)
(* buildResponse, lyric-api.go:763, one action per statement.              *)
(***************************************************************************)
\* lyric-api.go:763-770
BuildResponseEnter ==
    /\ op = "idle"
    /\ \E data \in BuildResponseData :
        /\ op' = "buildResponse"
        /\ args' = [song |-> <<"s">>, singer |-> <<"g">>, album |-> <<"l">>,
                    data |-> data]
        /\ ret' = [Code |-> 200, Song |-> <<"s">>, Singer |-> <<"g">>,
                   Album |-> <<"l">>, LRC |-> << >>, ESLRC |-> << >>,
                   TTML |-> << >>]
    /\ pc' = "merge"
    /\ err' = "nil"
    /\ UNCHANGED poolVars

\* lyric-api.go:773
BuildResponseMerge ==
    /\ op = "buildResponse" /\ pc = "merge"
    /\ ret' = [ret EXCEPT
                  !.LRC = mergeLrcWithTranslation(args.data.Lrc, args.data.Trans)]
    /\ pc' = "yrc"
    /\ UNCHANGED <<op, args, err>>
    /\ UNCHANGED poolVars

\* lyric-api.go:776, data.Data.Yrc == ""
BuildResponseNoYrc ==
    /\ op = "buildResponse" /\ pc = "yrc"
    /\ args.data.Yrc = << >>
    /\ pc' = "return"
    /\ UNCHANGED <<op, args, ret, err>>
    /\ UNCHANGED poolVars

\* lyric-api.go:777-779, err == nil
BuildResponseTtml ==
    /\ op = "buildResponse" /\ pc = "yrc"
    /\ args.data.Yrc # << >>
    /\ convertYrcToTtml(args.data).err = "nil"
    /\ ret' = [ret EXCEPT !.TTML = convertYrcToTtml(args.data).ttml]
    /\ err' = "nil"
    /\ pc' = "eslrc"
    /\ UNCHANGED <<op, args>>
    /\ UNCHANGED poolVars

\* mutant: a failed TTML conversion ends buildResponse
BuildResponseTtmlFailedReturns ==
    /\ op = "buildResponse" /\ pc = "yrc"
    /\ args.data.Yrc # << >>
    /\ convertYrcToTtml(args.data).err # "nil"
    /\ err' = convertYrcToTtml(args.data).err
    /\ pc' = "return"
    /\ UNCHANGED <<op, args, ret>>
    /\ UNCHANGED poolVars

\* lyric-api.go:777-782, err != nil: the error is logged
BuildResponseTtmlFailed ==
    /\ op = "buildResponse" /\ pc = "yrc"
    /\ args.data.Yrc # << >>
    /\ convertYrcToTtml(args.data).err # "nil"
    /\ err' = convertYrcToTtml(args.data).err
    /\ pc' = "eslrc"
    /\ UNCHANGED <<op, args, ret>>
    /\ UNCHANGED poolVars

\* lyric-api.go:784-786; convertYrcToEnhancedLrc returns no error
BuildResponseEslrc ==
    /\ op = "buildResponse" /\ pc = "eslrc"
    /\ \E order \in RangeOrders(Len(parseLrcMeta(args.data.Lrc))) :
        ret' = [ret EXCEPT
                   !.ESLRC = convertYrcToEnhancedLrc(args.data.Yrc, args.data.Lrc,
                                 args.data.Trans, args.data.Roma, order)]
    /\ err' = "nil"
    /\ pc' = "return"
    /\ UNCHANGED <<op, args>>
    /\ UNCHANGED poolVars

\* the call returns (buildResponse: lyric-api.go:792)
Return ==
    /\ op # "idle"
    /\ op = "buildResponse" => pc = "return"
    /\ op' = "idle"
    /\ args' = << >>
    /\ ret' = << >>
    /\ pc' = "none"
    /\ err' = "nil"
    /\ UNCHANGED poolVars

(***************************************************************************)
(* convertYrcToTtml run by goroutine p, one action per step on the pool or *)
(* the builder.  sync.Pool.Get hands out an item of the pool, which it     *)
(* removes, or the result of New: a caller cannot tell which it gets.      *)
(***************************************************************************)
\* lyric-api.go:431 and 144, sb := stringBuilderPool.Get().  The goroutines
\* that are idle are alike: the lowest of them runs the next invocation.
ConvertGet(p) ==
    /\ conv[p].at = "idle"
    /\ \A q \in Procs : q < p => conv[q].at # "idle"
    /\ invocations < MaxInvocations
    /\ invocations' = invocations + 1
    /\ \E data \in PoolData :
        \/ \E b \in stringBuilderPool :
            /\ stringBuilderPool' = stringBuilderPool \ {b}
            /\ builders' = builders
            /\ conv' = [conv EXCEPT ![p] =
                           [IdleConv EXCEPT !.at = "reset", !.data = data, !.sb = b]]
        \/ /\ Len(builders) < MaxBuilders
           /\ stringBuilderPool' = stringBuilderPool
           /\ builders' = Append(builders, NilBuilder)
           /\ conv' = [conv EXCEPT ![p] =
                          [IdleConv EXCEPT !.at = "reset", !.data = data,
                                           !.sb = Len(builders) + 1]]
    /\ UNCHANGED <<heap, results, callVars>>

\* mutant: Reset keeps the array and sets the length to 0
ConvertResetKeepsArray(p) ==
    /\ conv[p].at = "reset"
    /\ builders' = [builders EXCEPT ![conv[p].sb].len = 0]
    /\ conv' = [conv EXCEPT ![p].at = "parse"]
    /\ UNCHANGED <<stringBuilderPool, heap, results, invocations, callVars>>

\* lyric-api.go:145, sb.Reset(): the builder's buf becomes nil
ConvertReset(p) ==
    /\ conv[p].at = "reset"
    /\ builders' = [builders EXCEPT ![conv[p].sb] = NilBuilder]
    /\ conv' = [conv EXCEPT ![p].at = "parse"]
    /\ UNCHANGED <<stringBuilderPool, heap, results, invocations, callVars>>

\* lyric-api.go:434-440
ConvertParse(p) ==
    /\ conv[p].at = "parse"
    /\ IF Len(parseYrcToLines(conv[p].data.Yrc)) = 0
       THEN conv' = [conv EXCEPT ![p].at = "put", ![p].str = EmptyString,
                                 ![p].err = ErrNoValidYrcLines]
       ELSE conv' = [conv EXCEPT ![p].at = "write",
                                 ![p].pending = TtmlWrites(conv[p].data)]
    /\ UNCHANGED <<stringBuilderPool, builders, heap, results, invocations, callVars>>

\* lyric-api.go:442-516, sb.WriteString: a nil buf gets a new array
ConvertWrite(p) ==
    /\ conv[p].at = "write"
    /\ LET chunk == Head(conv[p].pending)
           sb == conv[p].sb
           b == builders[sb]
       IN  /\ IF b.buf = 0
              THEN /\ heap' = Append(heap, chunk)
                   /\ builders' = [builders EXCEPT ![sb] =
                                      [buf |-> Len(heap) + 1, len |-> Len(chunk)]]
              ELSE /\ heap' = [heap EXCEPT ![b.buf] = AppendInPlace(@, b.len, chunk)]
                   /\ builders' = [builders EXCEPT ![sb].len = b.len + Len(chunk)]
           /\ conv' = [conv EXCEPT
                          ![p].wrote = @ \o chunk,
                          ![p].pending = Tail(@),
                          ![p].at = IF Tail(conv[p].pending) = << >>
                                    THEN "string" ELSE "write"]
    /\ UNCHANGED <<stringBuilderPool, results, invocations, callVars>>

\* lyric-api.go:517, return sb.String(), nil
ConvertString(p) ==
    /\ conv[p].at = "string"
    /\ conv' = [conv EXCEPT ![p].at = "put", ![p].str = builders[conv[p].sb],
                            ![p].err = "nil"]
    /\ UNCHANGED <<stringBuilderPool, builders, heap, results, invocations, callVars>>

\* lyric-api.go:432 and 150, the deferred stringBuilderPool.Put(sb); the
\* invocation returns
ConvertPut(p) ==
    /\ conv[p].at = "put"
    /\ stringBuilderPool' = stringBuilderPool \cup {conv[p].sb}
    /\ results' = results \cup {[sb |-> conv[p].sb, wrote |-> conv[p].wrote,
                                  str |-> conv[p].str, err |-> conv[p].err]}
    /\ conv' = [conv EXCEPT ![p] = IdleConv]
    /\ UNCHANGED <<builders, heap, invocations, callVars>>

Next ==
    \/ CallFindClosestLine
    \/ CallMatchRomajiLine
    \/ CallGroupLinesIntoDivs
    \/ CallParseYrcLine
    \/ CallParseYrcToLines
    \/ CallLrcTimeCodec
    \/ CallParseLrcTimedLines
    \/ CallMergeLrcWithTranslation
    \/ BuildResponseEnter
    \/ BuildResponseMerge
    \/ BuildResponseNoYrc
    \/ BuildResponseTtml
    \/ BuildResponseTtmlFailed
    \/ BuildResponseEslrc
    \/ Return

Spec == Init /\ [][Next]_vars

NextPool ==
    \E p \in Procs :
        \/ ConvertGet(p)
        \/ ConvertReset(p)
        \/ ConvertParse(p)
        \/ ConvertWrite(p)
        \/ ConvertString(p)
        \/ ConvertPut(p)

SpecPool == Init /\ [][NextPool]_vars

(***************************************************************************)
(* Claims.                                                                 *)
(***************************************************************************)
Dist(a, b) == IF a >= b THEN a - b ELSE b - a

\* C1: findClosestLine returns the content of an entry whose |Time - t| is
\* the minimum over the whole sequence, and only when that minimum is
\* strictly below 500 ms; otherwise it returns the empty string.
C1_ClosestWithin500 ==
    op = "findClosestLine" =>
        LET t == args.time
            lines == args.lines
            IsMin(i) == \A j \in DOMAIN lines :
                            Dist(lines[i].Time, t) <= Dist(lines[j].Time, t)
        IN  IF \E i \in DOMAIN lines : Dist(lines[i].Time, t) < 500
            THEN \E i \in DOMAIN lines : IsMin(i) /\ ret.content = lines[i].Content
            ELSE ret.content = << >>

\* C1 witness: a translation at T answers a query at T+499 although another
\* entry of the sequence is out of range.
C1_Witness ==
    /\ op = "findClosestLine"
    /\ Len(args.lines) >= 2
    /\ \E i \in DOMAIN args.lines :
        /\ args.time = args.lines[i].Time + 499
        /\ ret.content = args.lines[i].Content
        /\ \E j \in DOMAIN args.lines :
              Dist(args.lines[j].Time, args.time) >= 500

\* C2: matchRomajiLine returns the first line in source order whose
\* |StartTime - t| <= 100, even when a later line is closer, and nil when
\* no line is in range.
C2_FirstWithin100 ==
    op = "matchRomajiLine" =>
        LET t == args.mainLineTime
            lines == args.romajiLines
            InRange(i) == Dist(lines[i].StartTime, t) <= 100
        IN  IF \E i \in DOMAIN lines : InRange(i)
            THEN /\ ret.line \in DOMAIN lines
                 /\ InRange(ret.line)
                 /\ \A j \in 1..(ret.line - 1) : ~InRange(j)
            ELSE ret.line = 0

\* C2 witness: the first line in range is returned although a later line is
\* strictly closer to the main line's time.
C2_Witness ==
    /\ op = "matchRomajiLine"
    /\ ret.line \in DOMAIN args.romajiLines
    /\ \E j \in DOMAIN args.romajiLines :
        /\ j > ret.line
        /\ Dist(args.romajiLines[j].StartTime, args.mainLineTime)
             < Dist(args.romajiLines[ret.line].StartTime, args.mainLineTime)

\* the end of a line's content as the claim defines it
EffectiveEnd(line) ==
    IF line.Words # << >>
    THEN line.Words[Len(line.Words)].StartTime + line.Words[Len(line.Words)].Duration
    ELSE line.EndTime

RECURSIVE FlattenDivs(_)
FlattenDivs(divs) ==
    IF divs = << >> THEN << >> ELSE Head(divs).Lines \o FlattenDivs(Tail(divs))

\* the input index of the first line of paragraph k
DivFirstIndex(divs, k) == 1 + Len(FlattenDivs(SubSeq(divs, 1, k - 1)))

\* C3: with threshold 1000 the paragraphs are the consecutive runs of the
\* input cut before line i exactly when StartTime(i) - EffectiveEnd(i-1) >
\* 1000; their concatenation is the input; each paragraph starts at its
\* first line's StartTime and ends at the effective end of its last line.
C3_ParagraphsAreGapRuns ==
    (op = "groupLinesIntoDivs" /\ args.lines # << >>) =>
        LET lines == args.lines
            divs == ret.divs
            CutBefore(i) == lines[i].StartTime - EffectiveEnd(lines[i - 1]) > 1000
            Firsts == {DivFirstIndex(divs, k) : k \in DOMAIN divs}
        IN  /\ FlattenDivs(divs) = lines
            /\ \A k \in DOMAIN divs :
                /\ divs[k].Lines # << >>
                /\ divs[k].StartTime = divs[k].Lines[1].StartTime
                /\ divs[k].EndTime = EffectiveEnd(divs[k].Lines[Len(divs[k].Lines)])
            /\ 1 \in Firsts
            /\ \A i \in 2..Len(lines) : (i \in Firsts) <=> CutBefore(i)

\* C3 witness: four lines with gaps 900, 1000 and 1001 give two paragraphs,
\* split only at the 1001 gap.
C3_Witness ==
    /\ op = "groupLinesIntoDivs"
    /\ Len(args.lines) = 4
    /\ args.lines[2].StartTime - EffectiveEnd(args.lines[1]) = 900
    /\ args.lines[3].StartTime - EffectiveEnd(args.lines[2]) = 1000
    /\ args.lines[4].StartTime - EffectiveEnd(args.lines[3]) = 1001
    /\ Len(ret.divs) = 2
    /\ Len(ret.divs[1].Lines) = 3
    /\ Len(ret.divs[2].Lines) = 1

\* white space only (or empty), decided character by character
IsBlank(text) == \A i \in DOMAIN text : text[i] \in {" ", "\t", "\n", "\r", "\f"}

\* the words the word pattern matches in the segment of a structural line,
\* as (text, start, duration) before any correction; << >> for a line that
\* is not structural
MatchedWords(line) ==
    LET m == yrcLineReFind(line)
    IN  IF m = << >> THEN << >>
        ELSE LET found == wordInfoReFindAll(m[4], 1)
             IN  [i \in DOMAIN found |->
                     [Text |-> found[i][2], StartTime |-> Atoi(found[i][3]),
                      Duration |-> Atoi(found[i][4])]]

IsDroppedWord(w) == w.Duration = 0 /\ IsBlank(w.Text)
IsKeptWord(w) == ~IsDroppedWord(w)
KeptWords(line) == SelectSeq(MatchedWords(line), IsKeptWord)

NonBlankWordsLastingOne(words) ==
    \A i \in DOMAIN words : ~IsBlank(words[i].Text) => words[i].Duration >= 1

\* C4: in every line parseYrcLine / parseYrcToLines returns, a word with
\* non-blank text has Duration >= 1; the words are the matched words in
\* order, those of duration 0 and non-blank text with Duration 1 and those
\* of duration 0 and blank text left out.
C4_ZeroDurationCorrected ==
    /\ (op = "parseYrcLine" /\ ~ret.err) =>
          LET words == ret.lineInfo.Words
              matched == MatchedWords(args.line)
              kept == KeptWords(args.line)
          IN  /\ NonBlankWordsLastingOne(words)
              /\ kept # << >> =>
                    /\ Len(words) = Len(kept)
                    /\ \A i \in DOMAIN kept :
                          words[i] = [Text |-> kept[i].Text,
                                      StartTime |-> kept[i].StartTime,
                                      Duration |-> IF kept[i].Duration = 0 THEN 1
                                                   ELSE kept[i].Duration]
              /\ kept = << >> =>
                    \A i \in DOMAIN words, j \in DOMAIN matched :
                        words[i].Text # matched[j].Text
    /\ op = "parseYrcToLines" =>
          \A k \in DOMAIN ret.lines :
              /\ NonBlankWordsLastingOne(ret.lines[k].Words)
              /\ \E l \in DOMAIN SplitLines(args.yrcContent) :
                    LET line == SplitLines(args.yrcContent)[l]
                    IN  /\ yrcLineReFind(line) # << >>
                        /\ KeptWords(line) # << >> =>
                              Len(ret.lines[k].Words) = Len(KeptWords(line))
                        /\ ret.lines[k].StartTime = Atoi(yrcLineReFind(line)[2])

\* C4 witness: a line with a zero-duration non-blank word, which comes out
\* with Duration 1, and a zero-duration blank word, which is left out.
C4_Witness ==
    /\ op = "parseYrcLine"
    /\ ~ret.err
    /\ \E j \in DOMAIN MatchedWords(args.line) :
          IsDroppedWord(MatchedWords(args.line)[j])
    /\ \E j \in DOMAIN KeptWords(args.line) :
          /\ KeptWords(args.line)[j].Duration = 0
          /\ ret.lineInfo.Words[j].Duration = 1
    /\ Len(ret.lineInfo.Words) = Len(MatchedWords(args.line)) - 1

\* C5: a structural line whose segment is non-empty and holds no match of
\* the word pattern yields exactly one word: the whole segment, starting at
\* the header start, lasting the header duration, or 1 when that is 0.
C5_WholeLineFallback ==
    op = "parseYrcLine" =>
        LET m == yrcLineReFind(args.line)
        IN  (m # << >> /\ m[4] # << >> /\ wordInfoReFindAll(m[4], 1) = << >>) =>
                /\ ~ret.err
                /\ ret.lineInfo.Words =
                     << [Text |-> m[4], StartTime |-> Atoi(m[2]),
                         Duration |-> IF Atoi(m[3]) = 0 THEN 1 ELSE Atoi(m[3])] >>

\* C5 witness: such a line with header duration 0, whose word lasts 1.
C5_Witness ==
    /\ op = "parseYrcLine"
    /\ yrcLineReFind(args.line) # << >>
    /\ yrcLineReFind(args.line)[4] # << >>
    /\ wordInfoReFindAll(yrcLineReFind(args.line)[4], 1) = << >>
    /\ Atoi(yrcLineReFind(args.line)[3]) = 0
    /\ Len(ret.lineInfo.Words) = 1
    /\ ret.lineInfo.Words[1].Duration = 1

\* a structural line in which words were matched and all of them dropped
AllWordsDropped(line) == MatchedWords(line) # << >> /\ KeptWords(line) = << >>

\* C6: for a structural line whose matched words were all dropped (duration
\* 0, blank text) no whole-line word is synthesized and parseYrcToLines
\* returns no line.
C6_NoLineWhenAllWordsDropped ==
    /\ (op = "parseYrcLine" /\ AllWordsDropped(args.line)) =>
          ret.lineInfo.Words = << >>
    /\ op = "parseYrcToLines" =>
          LET lines == SplitLines(args.yrcContent)
          IN  Len(ret.lines) <= Cardinality({i \in DOMAIN lines : ~AllWordsDropped(lines[i])})

\* C7 as stated: decoding a valid timestamp, encoding the value with
\* msToLrcTime and decoding the result gives the value of the first decode.
C7_RoundTripSameValue ==
    op = "lrcTimeCodec" => (ret.decodes /\ ret.second = ret.first)

\* whether the fraction of timestamp line is in centiseconds: two digits, or
\* three digits of which the last is 0
CentisecondFraction(line) == Len(line) = 10 \/ line[10] = "0"

\* C7 amended: below 100 minutes (6000000 ms) the second decode gives the
\* first value rounded down to a multiple of 10 ms, hence the same value for
\* a two-digit fraction and for a three-digit fraction ending in 0; from
\* 100 minutes on the encoded label has three minute digits and does not
\* match the timestamp pattern.
C7_RoundTripCentiseconds ==
    op = "lrcTimeCodec" =>
        /\ ret.first < 6000000 =>
              /\ ret.decodes
              /\ ret.second = ret.first - (ret.first % 10)
              /\ CentisecondFraction(args.line) => ret.second = ret.first
        /\ ret.first >= 6000000 => ~ret.decodes

\* C7 witness: a two-digit timestamp with 60 seconds or more, which encodes
\* to another label and still decodes to the same value.
C7_Witness ==
    /\ op = "lrcTimeCodec"
    /\ Len(args.line) = 10
    /\ ret.encoded # args.line
    /\ ret.decodes
    /\ ret.second = ret.first
    /\ ret.first > 0

\* the lines of a text: the pieces between its line feeds, without the
\* empty piece after a final line feed
TextLines(s) ==
    LET pieces == SplitLines(s)
    IN  IF pieces[Len(pieces)] = << >> THEN SubSeq(pieces, 1, Len(pieces) - 1)
        ELSE pieces

\* line without its leading and trailing white space
Stripped(line) ==
    LET solid == {i \in DOMAIN line : ~IsBlank(<<line[i]>>)}
    IN  IF solid = {} THEN << >>
        ELSE SubSeq(line, CHOOSE i \in solid : \A j \in solid : i <= j,
                          CHOOSE i \in solid : \A j \in solid : j <= i)

\* the non-blank lines, stripped
RECURSIVE StrippedLines(_)
StrippedLines(lines) ==
    IF lines = << >> THEN << >>
    ELSE (IF IsBlank(Head(lines)) THEN << >> ELSE <<Stripped(Head(lines))>>)
         \o StrippedLines(Tail(lines))

\* out is orig, in order, with at most one more line after each of its lines
RECURSIVE Interleaves(_, _)
Interleaves(out, orig) ==
    IF orig = << >> THEN out = << >>
    ELSE /\ out # << >>
         /\ Head(out) = Head(orig)
         /\ \/ Interleaves(Tail(out), Tail(orig))
            \/ Len(out) >= 2 /\ Interleaves(Tail(Tail(out)), Tail(orig))

\* C8 as stated: the output holds every line of the original verbatim and
\* in order, with only translation lines added; with an empty translation
\* it is the original text.
C8_OriginalLinesVerbatim ==
    op = "mergeLrcWithTranslation" =>
        /\ Interleaves(TextLines(ret.lrc), TextLines(args.originalLrc))
        /\ args.transLrc = << >> => ret.lrc = args.originalLrc

\* C8 amended: with a blank (empty or white space) translation the output is
\* the original text; otherwise it holds, in order, every non-blank line of
\* the original without its leading and trailing white space, each ended by
\* a line feed, with at most one added line after each; blank lines are
\* left out.
C8_StrippedLinesInOrder ==
    op = "mergeLrcWithTranslation" =>
        /\ IsBlank(args.transLrc) => ret.lrc = args.originalLrc
        /\ ~IsBlank(args.transLrc) =>
              /\ Interleaves(TextLines(ret.lrc),
                             StrippedLines(SplitLines(args.originalLrc)))
              /\ (ret.lrc = << >> \/ ret.lrc[Len(ret.lrc)] = "\n")

\* C8 witness: a translation line is added to an original that holds a line
\* with white space around it.
C8_Witness ==
    /\ op = "mergeLrcWithTranslation"
    /\ ~IsBlank(args.transLrc)
    /\ \E i \in DOMAIN SplitLines(args.originalLrc) :
          LET line == SplitLines(args.originalLrc)[i]
          IN  ~IsBlank(line) /\ Stripped(line) # line
    /\ Len(TextLines(ret.lrc)) > Len(StrippedLines(SplitLines(args.originalLrc)))

\* the timestamp label a line starts with: up to its first "]"
TimestampLabel(line) ==
    SubSeq(line, 1, CHOOSE i \in DOMAIN line :
                        line[i] = "]" /\ \A j \in 1..(i - 1) : line[j] # "]")

\* the output as C9 states it: after a line that is no metadata, matches the
\* timestamp pattern and has a translation within 500 ms, one line with the
\* label of that line and the translated text; after other lines nothing
RECURSIVE MergedAsStated(_, _)
MergedAsStated(lines, translations) ==
    IF lines = << >> THEN << >>
    ELSE LET line == Head(lines)
             m == lrcTimeReFind(line)
             text == IF m = << >> THEN << >>
                     ELSE findClosestLine(LrcTotalMs(m), translations)
         IN  <<line>>
             \o (IF ~isMetadataLine(line) /\ m # << >> /\ text # << >>
                 THEN <<TimestampLabel(line) \o text>>
                 ELSE << >>)
             \o MergedAsStated(Tail(lines), translations)

\* C9: a non-metadata line that matches the timestamp pattern and has a
\* translation within 500 ms is followed at once by a line made of the same
\* timestamp label and the translated text; other lines are followed by no
\* translation line.
C9_SameLabelTranslationLine ==
    (op = "mergeLrcWithTranslation" /\ ~IsBlank(args.transLrc)) =>
        TextLines(ret.lrc) =
            MergedAsStated(StrippedLines(SplitLines(args.originalLrc)),
                           parseLrcTimedLines(args.transLrc))

\* C10: when the YRC text is not empty and yields no parsed line,
\* convertYrcToTtml fails and the TTML field stays empty, while the merged
\* LRC and the enhanced LRC are what mergeLrcWithTranslation and
\* convertYrcToEnhancedLrc give; when the YRC text is empty the ESLRC and
\* TTML fields are empty and the merged LRC is still there.
C10_TtmlFailureIsolated ==
    /\ (op = "buildResponse" /\ pc = "eslrc"
            /\ parseYrcToLines(args.data.Yrc) = << >>) =>
          (err = ErrNoValidYrcLines /\ ret.TTML = << >>)
    /\ (op = "buildResponse" /\ pc = "return") =>
          LET data == args.data
          IN  /\ ret.LRC = mergeLrcWithTranslation(data.Lrc, data.Trans)
              /\ data.Yrc = << >> => (ret.ESLRC = << >> /\ ret.TTML = << >>)
              /\ (data.Yrc # << >> /\ parseYrcToLines(data.Yrc) = << >>) =>
                    /\ ret.TTML = << >>
                    /\ \E order \in RangeOrders(Len(parseLrcMeta(data.Lrc))) :
                          ret.ESLRC = convertYrcToEnhancedLrc(data.Yrc, data.Lrc,
                                          data.Trans, data.Roma, order)

\* C10 witness: buildResponse ends with an empty TTML field for a YRC text
\* without valid lines, and with a merged LRC and an enhanced LRC.
C10_Witness ==
    /\ op = "buildResponse"
    /\ pc = "return"
    /\ args.data.Yrc # << >>
    /\ parseYrcToLines(args.data.Yrc) = << >>
    /\ ret.TTML = << >>
    /\ ret.ESLRC # << >>
    /\ ret.LRC # << >>
    /\ ret.LRC # args.data.Lrc

(***************************************************************************)
(* C11: whatever the interleaving of the invocations of convertYrcToTtml   *)
(* that share stringBuilderPool, no builder is held by two invocations at  *)
(* the same time nor by an invocation and the pool, and the string each    *)
(* invocation returned reads as the text that invocation wrote (the TTML   *)
(* of its input, or "" with the error), also after later invocations have  *)
(* taken the same builder from the pool, reset it and written to it.       *)
(***************************************************************************)
C11_PoolIsolation ==
    /\ \A p \in Running, q \in Running : p # q => conv[p].sb # conv[q].sb
    /\ \A p \in Running : conv[p].sb \notin stringBuilderPool
    /\ \A p \in Running :
          conv[p].at = "put" =>
              /\ StringText(conv[p].str) = conv[p].wrote
              /\ conv[p].wrote = convertYrcToTtml(conv[p].data).ttml
              /\ conv[p].err = convertYrcToTtml(conv[p].data).err
    /\ \A r \in results : StringText(r.str) = r.wrote

\* two invocations that did not fail returned texts that differ from the same
\* builder, which went through the pool from the one to the other, and an
\* invocation that failed put its builder back too
C11_Witness ==
    /\ \E r1 \in results, r2 \in results :
          /\ r1.sb = r2.sb
          /\ r1.err = "nil" /\ r2.err = "nil"
          /\ r1.wrote # r2.wrote
          /\ StringText(r1.str) = r1.wrote
          /\ StringText(r2.str) = r2.wrote
    /\ \E r \in results :
          r.err = ErrNoValidYrcLines /\ r.sb \in stringBuilderPool

(***************************************************************************)
(* C12: the sequence parseLrcTimedLines returns is in ascending order of   *)
(* Time and is a stable sort of the lines it retains: for every time, the  *)
(* returned entries of that time are the retained lines of that time, all  *)
(* of them, duplicates too, in the order they have in the text.            *)
(***************************************************************************)
RECURSIVE EntriesAt(_, _)
EntriesAt(timedLines, time) ==
    IF timedLines = << >> THEN << >>
    ELSE (IF Head(timedLines).Time = time THEN <<Head(timedLines)>> ELSE << >>)
         \o EntriesAt(Tail(timedLines), time)

RetainedLines(lrcContent) == TimedLinesFrom(SplitLines(lrcContent))

C12_StableSortedByTime ==
    op = "parseLrcTimedLines" =>
        LET out == ret.timedLines
            retained == RetainedLines(args.lrcContent)
        IN  /\ \A i \in DOMAIN out, j \in DOMAIN out :
                  i < j => out[i].Time <= out[j].Time
            /\ Len(out) = Len(retained)
            /\ \A k \in DOMAIN retained :
                  EntriesAt(out, retained[k].Time)
                      = EntriesAt(retained, retained[k].Time)

====
